---- MODULE Spec2Model ----
(***************************************************************************)
(* Stage 2 "The Factory": the row claim / process / finalize protocol of   *)
(* src/stage2_factory.py (sweep mode, run from cron) and                   *)
(* src/stage2_factory_app.py (trigger mode, Flask + background threads)    *)
(* over one shared Google Sheet.                                           *)
(*                                                                         *)
(* One step of the model is one remote call that changes the sheet         *)
(* together with the reads and local computation that lead to it.  Every   *)
(* remote call may raise (network / auth / rate limit): an action chooses  *)
(* the outcome with \E ok \in BOOLEAN.                                     *)
(***************************************************************************)
EXTENDS Integers, Sequences, FiniteSets, TLC

(***************************************************************************)
(* Bounds of the model.                                                    *)
(***************************************************************************)
NRows == 2          \* data rows of the sheet (rows 2 .. NRows + 1)
NSweeps == 2        \* runs of stage2_factory.py that may overlap
MaxTasks == 2       \* background threads the web app may start
MaxExcLen == 501    \* longest text of a raised exception

(***************************************************************************)
(* Cell values.  A string is [s |-> name, n |-> length]: the first n       *)
(* characters of the text called name.                                     *)
(***************************************************************************)
Str(name, len) == [s |-> name, n |-> len]

EmptyStr == Str("", 0)
Truthy(v) == v.n > 0

ColId == Str("id", 2)
ColTitle == Str("title", 5)
ColStatus == Str("Status", 6)
ColDrive == Str("drive_file_id", 13)
ColError == Str("error_message", 13)

Ready == Str("Ready", 5)
Processing == Str("Processing", 10)
Done == Str("Done", 4)
Error == Str("Error", 5)

RenderFailed == Str("Video rendering failed", 22)
UploadFailed == Str("Drive upload failed", 19)
ExcLens == {MaxExcLen}
ExcMsg(len) == Str("exception", len)
ExcMsgs == {ExcMsg(len) : len \in ExcLens}
FileId == Str("file", 4)

IdA == Str("a", 1)
IdB == Str("b", 1)
IdNone == Str("zzz", 3)
TitleT == Str("t", 1)

ErrLimit == 500

Min(a, b) == IF a <= b THEN a ELSE b

\* str.lower() on the texts of the model
Lower(v) ==
  CASE v.s = "Ready" -> Str("ready", v.n)
    [] v.s = "Processing" -> Str("processing", v.n)
    [] v.s = "Done" -> Str("done", v.n)
    [] v.s = "Error" -> Str("error", v.n)
    [] v.s = "Status" -> Str("status", v.n)
    [] OTHER -> v

\* a slice that keeps one character too many
Truncate_OffByOne(msg) == Str(msg.s, Min(msg.n, ErrLimit + 1))

\* error_message[:500]
Truncate(msg) == Str(msg.s, Min(msg.n, ErrLimit))

(***************************************************************************)
(* The sheet.                                                              *)
(***************************************************************************)
\* row 1: the column names ("Status", "drive_file_id", "error_message" and
\* the payload columns the code reads, "id" and "title")
Header == <<ColId, ColTitle, ColStatus, ColDrive, ColError>>
NCols == Len(Header)
Cols == 1..NCols
IdCol == CHOOSE c \in Cols : Header[c] = ColId
StatusCol == CHOOSE c \in Cols : Header[c] = ColStatus
DriveCol == CHOOSE c \in Cols : Header[c] = ColDrive
ErrorCol == CHOOSE c \in Cols : Header[c] = ColError
HeaderRow == 1
DataRows == 2..(NRows + 1)
AllRows == 1..(NRows + 1)
Sweeps == 1..NSweeps
Tasks == 1..MaxTasks
None == 0

VARIABLES
  sheet,      \* the worksheet ETL_Pipeline: sheet[r][c]
  SHEET_ID,   \* GOOGLE_SHEET_ID of the web app ("" when not set)
  sw,         \* the runs of stage2_factory.py
  tk,         \* the threads started by the web app
  pa,         \* the /process-all request being handled
  resp        \* the last HTTP response sent

vars == <<sheet, SHEET_ID, sw, tk, pa, resp>>

\* sheet.update_cell(row, col, value)
update_cell(sh, row, col, value) ==
  [sh EXCEPT ![row] = [@ EXCEPT ![col] = value]]

\* header_row.index(name): the first column whose header cell is name, or
\* None where the code raises ValueError
HeaderIndex(sh, name) ==
  IF \E c \in Cols : sh[HeaderRow][c] = name
  THEN CHOOSE c \in Cols : /\ sh[HeaderRow][c] = name
                           /\ \A d \in Cols : sh[HeaderRow][d] = name => c <= d
  ELSE None

\* sheet.find(value): the first cell, in row-major order, whose value is
\* value, as <<row, col>>, or NoCell
NoCell == <<0, 0>>
CellsWith(sh, value) == {rc \in AllRows \X Cols : sh[rc[1]][rc[2]] = value}
Before(x, y) == x[1] < y[1] \/ (x[1] = y[1] /\ x[2] <= y[2])
Find(sh, value) ==
  IF CellsWith(sh, value) = {} THEN NoCell
  ELSE CHOOSE x \in CellsWith(sh, value) : \A y \in CellsWith(sh, value) : Before(x, y)

\* record.get(key, ''): a record of get_all_records is dict(zip(header, row)),
\* so the last column with that header wins
RecordGet(sh, row, key) ==
  IF \E c \in Cols : sh[HeaderRow][c] = key
  THEN sh[row][CHOOSE c \in Cols : /\ sh[HeaderRow][c] = key
                                   /\ \A d \in Cols : sh[HeaderRow][d] = key => d <= c]
  ELSE EmptyStr

IsReady(v) == Lower(v) = Str("ready", 5)

RECURSIVE ReadyFrom(_, _)
ReadyFrom(sh, row) ==
  IF row > NRows + 1 THEN <<>>
  ELSE (IF IsReady(RecordGet(sh, row, ColStatus))
        THEN <<[row_number |-> row,
                id |-> RecordGet(sh, row, ColId),
                Status |-> RecordGet(sh, row, ColStatus)]>>
        ELSE <<>>) \o ReadyFrom(sh, row + 1)

RECURSIVE EveryRowFrom(_, _)
EveryRowFrom(sh, row) ==
  IF row > NRows + 1 THEN <<>>
  ELSE <<[row_number |-> row,
          id |-> RecordGet(sh, row, ColId),
          Status |-> RecordGet(sh, row, ColStatus)]>> \o EveryRowFrom(sh, row + 1)

\* a get_ready_rows without the Status filter
get_ready_rows_NoFilter(sh) == EveryRowFrom(sh, 2)

\* get_ready_rows(sheet)
get_ready_rows(sh) == ReadyFrom(sh, 2)

(***************************************************************************)
(* Initial state: the header, and data rows handed over by Stage 1 with    *)
(* empty result fields, released (Ready) or not yet released (blank).      *)
(***************************************************************************)
InitIds == {<<IdA, IdB>>, <<IdA, IdA>>, <<IdA, EmptyStr>>}
InitStatuses == {EmptyStr, Ready}

SweepIdle ==
  [pc |-> "start", ready_rows |-> <<>>, i |-> 0, success_count |-> 0, error_count |-> 0,
   drive_file_id |-> EmptyStr, error_msg |-> EmptyStr, col |-> None,
   store_failed |-> FALSE, died_in |-> "none"]

TaskIdle ==
  [pc |-> "idle", record_id |-> EmptyStr, row_number |-> None,
   drive_file_id |-> EmptyStr, error_msg |-> EmptyStr, col |-> None, req |-> "none"]

NoResp == [route |-> "none", code |-> 0, count |-> 0, record_id |-> EmptyStr, spawned |-> 0]

InitSheets ==
  {[r \in AllRows |->
      IF r = HeaderRow THEN Header
      ELSE <<ids[r], TitleT, sts[r], EmptyStr, EmptyStr>>] :
     ids \in {[r \in DataRows |-> IF r = 2 THEN p[1] ELSE p[2]] : p \in InitIds},
     sts \in [DataRows -> InitStatuses]}

Init ==
  /\ sheet \in InitSheets
  /\ SHEET_ID \in {"", "sheet"}
  /\ sw = [s \in Sweeps |-> SweepIdle]
  /\ tk = [t \in Tasks |-> TaskIdle]
  /\ pa = [pc |-> "idle", ready_ids |-> <<>>]
  /\ resp = NoResp

(***************************************************************************)
(* Sweep mode: stage2_factory.py                                           *)
(***************************************************************************)
CurRec(s) == sw[s].ready_rows[sw[s].i]
CurRow(s) == CurRec(s).row_number

\* a loop that breaks at the first row that fails
SweepReturn_StopOnError(st, result) ==
  [st EXCEPT !.success_count = IF result THEN @ + 1 ELSE @,
             !.error_count = IF result THEN @ ELSE @ + 1,
             !.i = @ + 1,
             !.pc = IF st.i + 1 > Len(st.ready_rows) \/ ~result THEN "returned" ELSE "claim",
             !.drive_file_id = EmptyStr,
             !.error_msg = EmptyStr,
             !.col = None]

\* a loop that tries a failed record again instead of going on
SweepReturn_Retry(st, result) ==
  [st EXCEPT !.success_count = IF result THEN @ + 1 ELSE @,
             !.i = IF result THEN @ + 1 ELSE @,
             !.pc = IF result /\ st.i + 1 > Len(st.ready_rows) THEN "returned" ELSE "claim",
             !.drive_file_id = EmptyStr,
             !.error_msg = EmptyStr,
             !.col = None]

\* process_row returned result for the current record: main counts it and
\* goes on to the next record of ready_rows, or logs the summary and returns
SweepReturn(st, result) ==
  [st EXCEPT !.success_count = IF result THEN @ + 1 ELSE @,
             !.error_count = IF result THEN @ ELSE @ + 1,
             !.i = @ + 1,
             !.pc = IF st.i + 1 > Len(st.ready_rows) THEN "returned" ELSE "claim",
             !.drive_file_id = EmptyStr,
             !.error_msg = EmptyStr,
             !.col = None]

\* history: a store call of this run raised
StoreFailed(st) == [st EXCEPT !.store_failed = TRUE]

\* a failed claim handled like any other failure of the row
ClaimFailed_WritesError(st) ==
  [StoreFailed(st) EXCEPT !.pc = "error_status", !.error_msg = ExcMsg(MaxExcLen)]

\* claim_row returned False: process_row returns False at once
ClaimFailed(st) == SweepReturn(StoreFailed(st), FALSE)

\* an except branch that only logs and returns False
SweepExcept_LogOnly(st, msg) == SweepReturn(st, FALSE)

\* the except branch of process_row: error_msg = str(e), then update_row_error
SweepExcept(st, msg) ==
  [st EXCEPT !.pc = "error_status", !.error_msg = msg, !.col = None]

\* main, up to the listing: connect, get_ready_rows, return when nothing is Ready
SweepList(s) ==
  /\ sw[s].pc = "start"
  /\ \E ok \in BOOLEAN :
       IF ~ok
       THEN sw' = [sw EXCEPT ![s].pc = "raised"]
       ELSE LET rows == get_ready_rows(sheet) IN
            sw' = [sw EXCEPT ![s].ready_rows = rows,
                             ![s].i = IF rows = <<>> THEN 0 ELSE 1,
                             ![s].pc = IF rows = <<>> THEN "returned" ELSE "claim"]
  /\ UNCHANGED <<sheet, SHEET_ID, tk, pa, resp>>

\* a claim_row that writes Processing only onto a row it finds Ready
SweepClaim_CompareAndSwap(s) ==
  /\ sw[s].pc = "claim"
  /\ \E ok \in BOOLEAN :
       LET cell == Find(sheet, ColStatus) IN
       IF ok /\ cell # NoCell /\ IsReady(sheet[CurRow(s)][cell[2]])
       THEN /\ sheet' = update_cell(sheet, CurRow(s), cell[2], Processing)
            /\ sw' = [sw EXCEPT ![s].pc = "render"]
       ELSE /\ sw' = [sw EXCEPT ![s] = ClaimFailed(@)]
            /\ UNCHANGED sheet
  /\ UNCHANGED <<SHEET_ID, tk, pa, resp>>

\* a sweep that claims every remaining listed row before it renders the first
SweepClaim_ClaimAll(s) ==
  /\ sw[s].pc = "claim"
  /\ \E ok \in BOOLEAN :
       LET cell == Find(sheet, ColStatus)
           rest == {sw[s].ready_rows[k].row_number : k \in sw[s].i..Len(sw[s].ready_rows)} IN
       IF ok /\ cell # NoCell
       THEN /\ sheet' = [r \in AllRows |->
                          IF r \in rest THEN [sheet[r] EXCEPT ![cell[2]] = Processing]
                          ELSE sheet[r]]
            /\ sw' = [sw EXCEPT ![s].pc = "render"]
       ELSE /\ sw' = [sw EXCEPT ![s] = ClaimFailed(@)]
            /\ UNCHANGED sheet
  /\ UNCHANGED <<SHEET_ID, tk, pa, resp>>

\* process_row step 1: claim_row
SweepClaim(s) ==
  /\ sw[s].pc = "claim"
  /\ \E ok \in BOOLEAN :
       LET cell == Find(sheet, ColStatus) IN
       IF ok /\ cell # NoCell
       THEN /\ sheet' = update_cell(sheet, CurRow(s), cell[2], Processing)
            /\ sw' = [sw EXCEPT ![s].pc = "render"]
       ELSE /\ sw' = [sw EXCEPT ![s] = ClaimFailed(@)]
            /\ UNCHANGED sheet
  /\ UNCHANGED <<SHEET_ID, tk, pa, resp>>

\* process_row steps 2-3: output path, render_video
SweepRender(s) ==
  /\ sw[s].pc = "render"
  /\ \/ sw' = [sw EXCEPT ![s].pc = "upload"]
     \/ sw' = [sw EXCEPT ![s] = SweepExcept(@, RenderFailed)]
     \/ \E msg \in ExcMsgs : sw' = [sw EXCEPT ![s] = SweepExcept(@, msg)]
  /\ UNCHANGED <<sheet, SHEET_ID, tk, pa, resp>>

\* an upload step that does not test the returned id
SweepUpload_NoCheck(s) ==
  /\ sw[s].pc = "upload"
  /\ \/ sw' = [sw EXCEPT ![s].pc = "done_status", ![s].drive_file_id = FileId]
     \/ sw' = [sw EXCEPT ![s].pc = "done_status", ![s].drive_file_id = EmptyStr]
  /\ UNCHANGED <<sheet, SHEET_ID, tk, pa, resp>>

\* process_row step 4: upload_to_drive
SweepUpload(s) ==
  /\ sw[s].pc = "upload"
  /\ \/ sw' = [sw EXCEPT ![s].pc = "done_status", ![s].drive_file_id = FileId]
     \/ sw' = [sw EXCEPT ![s] = SweepExcept(@, UploadFailed)]
  /\ UNCHANGED <<sheet, SHEET_ID, tk, pa, resp>>

\* process_row step 6 and the return: removing the temp file may raise,
\* which lands in the except branch
SweepCleanup(st) ==
  {SweepReturn(st, TRUE)} \cup {SweepExcept(st, msg) : msg \in ExcMsgs}

\* an update_row_done that sends both cells in one batch update
SweepDoneStatus_Batch(s) ==
  /\ sw[s].pc = "done_status"
  /\ \E ok \in BOOLEAN :
       LET status_col == HeaderIndex(sheet, ColStatus)
           drive_col == HeaderIndex(sheet, ColDrive) IN
       IF ok /\ status_col # None /\ drive_col # None
       THEN /\ sheet' = update_cell(update_cell(sheet, CurRow(s), status_col, Done),
                                    CurRow(s), drive_col, sw[s].drive_file_id)
            /\ \E st \in SweepCleanup(sw[s]) : sw' = [sw EXCEPT ![s] = st]
       ELSE /\ \E st \in SweepCleanup(StoreFailed(sw[s])) : sw' = [sw EXCEPT ![s] = st]
            /\ UNCHANGED sheet
  /\ UNCHANGED <<SHEET_ID, tk, pa, resp>>

\* update_row_done up to and including the Status cell
SweepDoneStatus(s) ==
  /\ sw[s].pc = "done_status"
  /\ \E ok \in BOOLEAN :
       LET status_col == HeaderIndex(sheet, ColStatus)
           drive_col == HeaderIndex(sheet, ColDrive) IN
       IF ok /\ status_col # None /\ drive_col # None
       THEN /\ sheet' = update_cell(sheet, CurRow(s), status_col, Done)
            /\ sw' = [sw EXCEPT ![s].pc = "done_field", ![s].col = drive_col]
       ELSE /\ \E st \in SweepCleanup(StoreFailed(sw[s])) : sw' = [sw EXCEPT ![s] = st]
            /\ UNCHANGED sheet
  /\ UNCHANGED <<SHEET_ID, tk, pa, resp>>

\* update_row_done: the drive_file_id cell, then step 6
SweepDoneField(s) ==
  /\ sw[s].pc = "done_field"
  /\ \E ok \in BOOLEAN :
       IF ok
       THEN /\ sheet' = update_cell(sheet, CurRow(s), sw[s].col, sw[s].drive_file_id)
            /\ \E st \in SweepCleanup(sw[s]) : sw' = [sw EXCEPT ![s] = st]
       ELSE /\ \E st \in SweepCleanup(StoreFailed(sw[s])) : sw' = [sw EXCEPT ![s] = st]
            /\ UNCHANGED sheet
  /\ UNCHANGED <<SHEET_ID, tk, pa, resp>>

\* update_row_error up to and including the Status cell
SweepErrorStatus(s) ==
  /\ sw[s].pc = "error_status"
  /\ \E ok \in BOOLEAN :
       LET status_col == HeaderIndex(sheet, ColStatus)
           error_col == HeaderIndex(sheet, ColError) IN
       IF ok /\ status_col # None /\ error_col # None
       THEN /\ sheet' = update_cell(sheet, CurRow(s), status_col, Error)
            /\ sw' = [sw EXCEPT ![s].pc = "error_field", ![s].col = error_col]
       ELSE /\ sw' = [sw EXCEPT ![s] = SweepReturn(StoreFailed(@), FALSE)]
            /\ UNCHANGED sheet
  /\ UNCHANGED <<SHEET_ID, tk, pa, resp>>

\* update_row_error: the error_message cell; process_row returns False
SweepErrorField(s) ==
  /\ sw[s].pc = "error_field"
  /\ \E ok \in BOOLEAN :
       IF ok
       THEN /\ sheet' = update_cell(sheet, CurRow(s), sw[s].col, Truncate(sw[s].error_msg))
            /\ sw' = [sw EXCEPT ![s] = SweepReturn(@, FALSE)]
       ELSE /\ sw' = [sw EXCEPT ![s] = SweepReturn(StoreFailed(@), FALSE)]
            /\ UNCHANGED sheet
  /\ UNCHANGED <<SHEET_ID, tk, pa, resp>>

\* where process_row stands between its claim write and its return
HoldPcs == {"render", "upload", "done_status", "done_field", "error_status", "error_field"}

\* the operating-system process running main dies (kill, power loss, host
\* reboot) somewhere inside the loop: no handler runs and nothing more is written
Kill(s) ==
  /\ sw[s].pc \in HoldPcs \cup {"claim"}
  /\ sw' = [sw EXCEPT ![s].pc = "killed", ![s].died_in = sw[s].pc]
  /\ UNCHANGED <<sheet, SHEET_ID, tk, pa, resp>>

SweepStep(s) ==
  \/ SweepList(s)
  \/ SweepClaim(s)
  \/ SweepRender(s)
  \/ SweepUpload(s)
  \/ SweepDoneStatus(s)
  \/ SweepDoneField(s)
  \/ SweepErrorStatus(s)
  \/ SweepErrorField(s)

(***************************************************************************)
(* Trigger mode: stage2_factory_app.py                                     *)
(***************************************************************************)
\* what a client may send as record_id (EmptyStr: missing or empty)
ReqIds == {EmptyStr, IdA, IdB, IdNone, ColStatus}

IdleTasks == {t \in Tasks : tk[t].pc = "idle"}

\* threading.Thread(target=process_record, args=(rid,)).start() for every rid
\* of rids, in order: thread k runs in the k-th free slot
RECURSIVE StartThreads(_, _, _)
StartThreads(tasks, rids, req) ==
  IF rids = <<>> THEN tasks
  ELSE LET free == {t \in Tasks : tasks[t].pc = "idle"}
           t == CHOOSE x \in free : \A y \in free : x <= y
       IN StartThreads([tasks EXCEPT ![t] = [TaskIdle EXCEPT !.pc = "spawned",
                                                              !.record_id = Head(rids),
                                                              !.req = req]],
                       Tail(rids), req)

\* a handler that tests the configuration before the body
process_ConfigFirst(record_id) ==
  /\ IF SHEET_ID = ""
     THEN /\ resp' = [NoResp EXCEPT !.route = "process", !.code = 500]
          /\ UNCHANGED tk
     ELSE IF ~Truthy(record_id)
     THEN /\ resp' = [NoResp EXCEPT !.route = "process", !.code = 400]
          /\ UNCHANGED tk
     ELSE /\ IdleTasks # {}
          /\ tk' = StartThreads(tk, <<record_id>>, "process")
          /\ resp' = [NoResp EXCEPT !.route = "process", !.code = 202,
                                    !.record_id = record_id, !.spawned = 1]
  /\ UNCHANGED <<sheet, SHEET_ID, sw, pa>>

\* POST /process
process(record_id) ==
  /\ IF ~Truthy(record_id)
     THEN /\ resp' = [NoResp EXCEPT !.route = "process", !.code = 400]
          /\ UNCHANGED tk
     ELSE IF SHEET_ID = ""
     THEN /\ resp' = [NoResp EXCEPT !.route = "process", !.code = 500]
          /\ UNCHANGED tk
     ELSE /\ IdleTasks # {}
          /\ tk' = StartThreads(tk, <<record_id>>, "process")
          /\ resp' = [NoResp EXCEPT !.route = "process", !.code = 202,
                                    !.record_id = record_id, !.spawned = 1]
  /\ UNCHANGED <<sheet, SHEET_ID, sw, pa>>

RECURSIVE ReadyIdsFrom(_, _)
ReadyIdsFrom(sh, row) ==
  IF row > NRows + 1 THEN <<>>
  ELSE (IF IsReady(RecordGet(sh, row, ColStatus)) /\ Truthy(RecordGet(sh, row, ColId))
        THEN <<RecordGet(sh, row, ColId)>>
        ELSE <<>>) \o ReadyIdsFrom(sh, row + 1)

RECURSIVE AllIdsFrom(_, _)
AllIdsFrom(sh, row) ==
  IF row > NRows + 1 THEN <<>>
  ELSE (IF Truthy(RecordGet(sh, row, ColId))
        THEN <<RecordGet(sh, row, ColId)>>
        ELSE <<>>) \o AllIdsFrom(sh, row + 1)

\* a listing that forgets the Status test
ready_ids_NoStatusTest(sh) == AllIdsFrom(sh, 2)

\* the list ready_ids of process_all
ready_ids(sh) == ReadyIdsFrom(sh, 2)

\* POST /process-all up to the listing
process_all_list ==
  /\ pa.pc = "idle"
  /\ IF SHEET_ID = ""
     THEN /\ resp' = [NoResp EXCEPT !.route = "process-all", !.code = 500]
          /\ UNCHANGED pa
     ELSE \E ok \in BOOLEAN :
            IF ok
            THEN /\ pa' = [pc |-> "listed", ready_ids |-> ready_ids(sheet)]
                 /\ UNCHANGED resp
            ELSE /\ resp' = [NoResp EXCEPT !.route = "process-all", !.code = 500]
                 /\ UNCHANGED pa
  /\ UNCHANGED <<sheet, SHEET_ID, sw, tk>>

\* POST /process-all: one thread per listed id, then the 202
process_all_spawn ==
  /\ pa.pc = "listed"
  /\ Cardinality(IdleTasks) >= Len(pa.ready_ids)
  /\ tk' = StartThreads(tk, pa.ready_ids, "process-all")
  /\ resp' = [NoResp EXCEPT !.route = "process-all", !.code = 202,
                            !.count = Len(pa.ready_ids), !.spawned = Len(pa.ready_ids)]
  /\ pa' = [pc |-> "idle", ready_ids |-> <<>>]
  /\ UNCHANGED <<sheet, SHEET_ID, sw>>

\* a lookup that falls back to the first data row
find_row_by_id_Fallback(sh, record_id, ok) ==
  IF ok /\ Find(sh, record_id) # NoCell THEN Find(sh, record_id)[1] ELSE 2

\* find_row_by_id
find_row_by_id(sh, record_id, ok) ==
  IF ok /\ Find(sh, record_id) # NoCell THEN Find(sh, record_id)[1] ELSE None

TaskStopped == [TaskIdle EXCEPT !.pc = "stopped"]

\* the except branch of process_record, entered with sheet and row_number bound
TaskExcept(st, msg) ==
  [st EXCEPT !.pc = "error_status", !.error_msg = msg, !.col = None]

\* process_record up to the claim: connect, find_row_by_id, read the record
TaskLocate(t) ==
  /\ tk[t].pc = "spawned"
  /\ \/ \* get_sheets_client / open_by_key raises: the handler's own call
        \* fails on the unbound sheet and the bare except swallows it
        tk' = [tk EXCEPT ![t] = TaskStopped]
     \/ \E ok \in BOOLEAN :
          LET row_number == find_row_by_id(sheet, tk[t].record_id, ok) IN
          IF row_number = None
          THEN tk' = [tk EXCEPT ![t] = TaskStopped]
          ELSE \/ tk' = [tk EXCEPT ![t].row_number = row_number, ![t].pc = "claim"]
               \/ \E msg \in ExcMsgs :
                    tk' = [tk EXCEPT ![t] = TaskExcept([@ EXCEPT !.row_number = row_number], msg)]
  /\ UNCHANGED <<sheet, SHEET_ID, sw, pa, resp>>

\* update_row_status(sheet, row_number, 'Processing')
TaskClaim(t) ==
  /\ tk[t].pc = "claim"
  /\ \E ok \in BOOLEAN :
       LET status_col == HeaderIndex(sheet, ColStatus) IN
       IF ok /\ status_col # None
       THEN /\ sheet' = update_cell(sheet, tk[t].row_number, status_col, Processing)
            /\ tk' = [tk EXCEPT ![t].pc = "render"]
       ELSE /\ \E msg \in ExcMsgs : tk' = [tk EXCEPT ![t] = TaskExcept(@, msg)]
            /\ UNCHANGED sheet
  /\ UNCHANGED <<SHEET_ID, sw, pa, resp>>

\* render_video: catches its own exceptions and returns False
TaskRender(t) ==
  /\ tk[t].pc = "render"
  /\ \/ tk' = [tk EXCEPT ![t].pc = "upload"]
     \/ tk' = [tk EXCEPT ![t] = TaskExcept(@, RenderFailed)]
  /\ UNCHANGED <<sheet, SHEET_ID, sw, pa, resp>>

\* upload_to_drive
TaskUpload(t) ==
  /\ tk[t].pc = "upload"
  /\ \/ tk' = [tk EXCEPT ![t].pc = "done_status", ![t].drive_file_id = FileId]
     \/ tk' = [tk EXCEPT ![t] = TaskExcept(@, UploadFailed)]
  /\ UNCHANGED <<sheet, SHEET_ID, sw, pa, resp>>

\* the end of the try block: removing the temp file may raise
TaskCleanup(st) ==
  {TaskStopped} \cup {TaskExcept(st, msg) : msg \in ExcMsgs}

\* update_row_status(sheet, row_number, 'Done', drive_file_id=...): the Status cell
TaskDoneStatus(t) ==
  /\ tk[t].pc = "done_status"
  /\ \E ok \in BOOLEAN :
       LET status_col == HeaderIndex(sheet, ColStatus)
           drive_col == HeaderIndex(sheet, ColDrive) IN
       IF ok /\ status_col # None
       THEN /\ sheet' = update_cell(sheet, tk[t].row_number, status_col, Done)
            /\ IF Truthy(tk[t].drive_file_id) /\ drive_col # None
               THEN tk' = [tk EXCEPT ![t].pc = "done_field", ![t].col = drive_col]
               ELSE \E st \in TaskCleanup(tk[t]) : tk' = [tk EXCEPT ![t] = st]
       ELSE /\ \E msg \in ExcMsgs : tk' = [tk EXCEPT ![t] = TaskExcept(@, msg)]
            /\ UNCHANGED sheet
  /\ UNCHANGED <<SHEET_ID, sw, pa, resp>>

\* update_row_status(..., 'Done', ...): the drive_file_id cell
TaskDoneField(t) ==
  /\ tk[t].pc = "done_field"
  /\ \E ok \in BOOLEAN :
       IF ok
       THEN /\ sheet' = update_cell(sheet, tk[t].row_number, tk[t].col, tk[t].drive_file_id)
            /\ \E st \in TaskCleanup(tk[t]) : tk' = [tk EXCEPT ![t] = st]
       ELSE /\ \E msg \in ExcMsgs : tk' = [tk EXCEPT ![t] = TaskExcept(@, msg)]
            /\ UNCHANGED sheet
  /\ UNCHANGED <<SHEET_ID, sw, pa, resp>>

\* the handler: update_row_status(sheet, row_number, 'Error', error_msg=str(e)),
\* the Status cell; whatever it raises is swallowed
TaskErrorStatus(t) ==
  /\ tk[t].pc = "error_status"
  /\ \E ok \in BOOLEAN :
       LET status_col == HeaderIndex(sheet, ColStatus)
           error_col == HeaderIndex(sheet, ColError) IN
       IF ok /\ status_col # None
       THEN /\ sheet' = update_cell(sheet, tk[t].row_number, status_col, Error)
            /\ IF Truthy(tk[t].error_msg) /\ error_col # None
               THEN tk' = [tk EXCEPT ![t].pc = "error_field", ![t].col = error_col]
               ELSE tk' = [tk EXCEPT ![t] = TaskStopped]
       ELSE /\ tk' = [tk EXCEPT ![t] = TaskStopped]
            /\ UNCHANGED sheet
  /\ UNCHANGED <<SHEET_ID, sw, pa, resp>>

\* the handler: the error_message cell
TaskErrorField(t) ==
  /\ tk[t].pc = "error_field"
  /\ \E ok \in BOOLEAN :
       IF ok
       THEN sheet' = update_cell(sheet, tk[t].row_number, tk[t].col, Truncate(tk[t].error_msg))
       ELSE UNCHANGED sheet
  /\ tk' = [tk EXCEPT ![t] = TaskStopped]
  /\ UNCHANGED <<SHEET_ID, sw, pa, resp>>

TaskStep(t) ==
  \/ TaskLocate(t)
  \/ TaskClaim(t)
  \/ TaskRender(t)
  \/ TaskUpload(t)
  \/ TaskDoneStatus(t)
  \/ TaskDoneField(t)
  \/ TaskErrorStatus(t)
  \/ TaskErrorField(t)

(***************************************************************************)
(* Stage 1 (outside this system) releases a row: blank Status -> Ready.    *)
(***************************************************************************)
Upstream(r) ==
  /\ sheet[r][StatusCol] = EmptyStr
  /\ sheet' = update_cell(sheet, r, StatusCol, Ready)
  /\ UNCHANGED <<SHEET_ID, sw, tk, pa, resp>>

(***************************************************************************)
(* Specifications.                                                         *)
(***************************************************************************)
Next ==
  \/ \E s \in Sweeps : SweepStep(s)
  \/ \E t \in Tasks : TaskStep(t)
  \/ \E rid \in ReqIds : process(rid)
  \/ process_all_list
  \/ process_all_spawn
  \/ \E r \in DataRows : Upstream(r)

Spec == Init /\ [][Next]_vars

\* one run of stage2_factory.py and nothing else but Stage 1
NextSweep ==
  \/ SweepStep(1)
  \/ \E r \in DataRows : Upstream(r)

SpecSweep == Init /\ [][NextSweep]_vars

\* the web app alone
NextTrigger ==
  \/ \E t \in Tasks : TaskStep(t)
  \/ \E rid \in ReqIds : process(rid)
  \/ process_all_list
  \/ process_all_spawn
  \/ \E r \in DataRows : Upstream(r)

SpecTrigger == Init /\ [][NextTrigger]_vars

\* two overlapping runs of stage2_factory.py
NextRace ==
  \/ \E s \in Sweeps : SweepStep(s)

SpecRace == Init /\ [][NextRace]_vars

\* one run of stage2_factory.py next to the web app serving POST /process,
\* one thread at a time
NextMixed ==
  \/ SweepStep(1)
  \/ TaskStep(1)
  \/ \E rid \in ReqIds : tk[1].pc = "idle" /\ process(rid)
  \/ \E r \in DataRows : Upstream(r)

SpecMixed == Init /\ [][NextMixed]_vars

\* the first run is over: main returned, raised, or its process died
Ended(s) == sw[s].pc \in {"returned", "raised", "killed"}

\* no trigger thread is between its start and its end
ThreadsQuiet == \A t \in Tasks : tk[t].pc \in {"idle", "stopped"}

\* the web app serves one request, POST /process or POST /process-all, and
\* all its threads run; the cron run of stage2_factory.py starts after the
\* request came in and takes its steps while no thread is at work
NextLive ==
  \/ \E rid \in ReqIds :
       sw[1].pc = "start" /\ (\A t \in Tasks : tk[t].pc = "idle") /\ pa.pc = "idle" /\ process(rid)
  \/ sw[1].pc = "start" /\ (\A t \in Tasks : tk[t].pc = "idle") /\ process_all_list
  \/ process_all_spawn
  \/ \E t \in Tasks : TaskStep(t)
  \/ ThreadsQuiet /\ SweepStep(1)
  \/ \E r \in DataRows : Upstream(r)

\* every store, render and upload call returns and every live thread is
\* scheduled: the request handler, a started thread and the run of main keep
\* taking their steps
SpecLive ==
  /\ Init /\ [][NextLive]_vars
  /\ WF_vars(process_all_spawn)
  /\ \A t \in Tasks : WF_vars(TaskStep(t))
  /\ WF_vars(ThreadsQuiet /\ SweepStep(1))

\* one dispatcher at a time: a run of main that may die, and POST /process
\* requests that arrive only while no run and no thread is at work
NextSolo ==
  \/ ThreadsQuiet /\ SweepStep(1)
  \/ Kill(1)
  \/ \E rid \in ReqIds :
       ThreadsQuiet /\ (Ended(1) \/ sw[1].pc = "start") /\ process(rid)
  \/ \E t \in Tasks : TaskStep(t)
  \/ \E r \in DataRows : Upstream(r)

SpecSolo == Init /\ [][NextSolo]_vars

\* one POST /process-all request: the listing is read while every thread
\* slot is still unused
NextAllOnce ==
  \/ (\A t \in Tasks : tk[t].pc = "idle") /\ process_all_list
  \/ process_all_spawn
  \/ \E t \in Tasks : TaskStep(t)
  \/ \E r \in DataRows : Upstream(r)

SpecAllOnce == Init /\ [][NextAllOnce]_vars

\* a run that may die, followed by a second sweep and POST /process requests
\* that all start after it ended
NextLate ==
  \/ SweepStep(1)
  \/ Kill(1)
  \/ Ended(1) /\ SweepStep(2)
  \/ \E rid \in ReqIds : Ended(1) /\ tk[1].pc = "idle" /\ process(rid)
  \/ TaskStep(1)
  \/ \E r \in DataRows : Upstream(r)

SpecLate == Init /\ [][NextLate]_vars

\* a run that may die, followed by POST /process-all requests that all read
\* their listing after it ended
NextLateAll ==
  \/ SweepStep(1)
  \/ Kill(1)
  \/ Ended(1) /\ process_all_list
  \/ process_all_spawn
  \/ \E t \in Tasks : TaskStep(t)
  \/ \E r \in DataRows : Upstream(r)

SpecLateAll == Init /\ [][NextLateAll]_vars

(***************************************************************************)
(* Properties.                                                             *)
(***************************************************************************)
StatusOf(r) == sheet[r][StatusCol]
DriveOf(r) == sheet[r][DriveCol]
ErrorOf(r) == sheet[r][ErrorCol]
StatusAfter(r) == sheet'[r][StatusCol]
DriveAfter(r) == sheet'[r][DriveCol]
ErrorAfter(r) == sheet'[r][ErrorCol]
Listed(s) == {sw[s].ready_rows[k].row_number : k \in 1..Len(sw[s].ready_rows)}
Finalized(r) ==
  \/ StatusOf(r) = Done /\ Truthy(DriveOf(r))
  \/ StatusOf(r) = Error /\ Truthy(ErrorOf(r))
SystemStep == sw' # sw \/ tk' # tk

C2_OnlyLegalTransitions ==
  [][SystemStep =>
       /\ \A r \in DataRows :
            StatusAfter(r) # StatusOf(r) =>
              \/ IsReady(StatusOf(r)) /\ StatusAfter(r) = Processing
              \/ StatusOf(r) = Processing /\ StatusAfter(r) \in {Done, Error}
       /\ \A s \in Sweeps :
            (sw[s].pc = "claim" /\ sw'[s].pc = "render") => IsReady(StatusOf(CurRow(s)))
       /\ \A t \in Tasks :
            (tk[t].pc = "claim" /\ tk'[t].pc = "render" /\ tk[t].row_number \in DataRows)
              => IsReady(StatusOf(tk[t].row_number))]_vars

C4_ResultFieldsMatchStatus ==
  \A r \in DataRows :
    /\ Truthy(DriveOf(r)) => StatusOf(r) = Done
    /\ Truthy(ErrorOf(r)) => StatusOf(r) = Error

ErrPcs == {"error_status", "error_field"}
OnlyCellChanged(r, c) ==
  \A rr \in AllRows, cc \in Cols : (rr # r \/ cc # c) => sheet'[rr][cc] = sheet[rr][cc]
HeaderIntact == sheet[HeaderRow] = Header

C6_SweepHandlesExactlyListedRows ==
  /\ [](sw[1].pc = "returned" =>
          /\ sw[1].success_count + sw[1].error_count = Len(sw[1].ready_rows)
          /\ sw[1].ready_rows # <<>> => sw[1].i = Len(sw[1].ready_rows) + 1)
  /\ [][/\ (sw[1].pc = "start" /\ sw'[1].pc \in {"claim", "returned"})
             => LET rows == sw'[1].ready_rows IN
                /\ {rows[k].row_number : k \in 1..Len(rows)}
                     = {r \in DataRows : sheet[HeaderRow][StatusCol] = ColStatus
                                         /\ IsReady(StatusOf(r))}
                /\ \A k \in 1..Len(rows) : IsReady(rows[k].Status)
                /\ \A j, k \in 1..Len(rows) : j < k => rows[j].row_number < rows[k].row_number
                /\ sheet' = sheet
                /\ rows = <<>> <=> sw'[1].pc = "returned"
        /\ sw[1].pc # "start"
             => /\ sw'[1].ready_rows = sw[1].ready_rows
                /\ sw'[1].i \in {sw[1].i, sw[1].i + 1}
                /\ (sw'[1] # sw[1] /\ sw'[1].pc = "claim") => sw'[1].i = sw[1].i + 1
        /\ (sw[1].pc = "claim" /\ sw'[1] # sw[1])
             => sw'[1].pc = "render" \/ sw'[1].i = sw[1].i + 1
        /\ (sw'[1] # sw[1] /\ sheet' # sheet)
             => /\ sw[1].i \in 1..Len(sw[1].ready_rows)
                /\ \A rr \in AllRows : rr # CurRow(1) => sheet'[rr] = sheet[rr]
        /\ sw[1].pc \in {"returned", "raised"} => sw'[1] = sw[1]]_vars

\* the sweep listed row 2 only, finished it and returned; row 3, released
\* after the listing, is still Ready and untouched
C6_Witness ==
  /\ HeaderIntact
  /\ sw[1].pc = "returned" /\ Listed(1) = {2}
  /\ StatusOf(2) = Done
  /\ tk[1].pc = "idle"
  /\ IsReady(StatusOf(3)) /\ ~Truthy(DriveOf(3)) /\ ~Truthy(ErrorOf(3))

Accepted(record_id) ==
  [route |-> "process", code |-> 202, count |-> 0, record_id |-> record_id, spawned |-> 1]

\* C7: POST /process that starts a thread answers 202 'accepted' with the
\* record_id, whatever the sheet holds; a thread whose record_id matches no
\* cell stops at the lookup and changes no cell.
C7_UnknownIdNoWrite ==
  /\ [](SHEET_ID # "" /\ IdleTasks # {} /\ CellsWith(sheet, IdNone) = {}
          => /\ ENABLED (process(IdNone) /\ resp' = Accepted(IdNone))
             /\ ~ENABLED (process(IdNone) /\ resp' # Accepted(IdNone)))
  /\ [][/\ \A t \in Tasks :
             (tk[t].pc = "idle" /\ tk'[t].pc = "spawned" /\ tk'[t].req = "process")
               => resp' = Accepted(tk'[t].record_id) /\ sheet' = sheet
        /\ \A t \in Tasks :
             (tk[t].pc = "spawned" /\ tk'[t] # tk[t] /\ CellsWith(sheet, tk[t].record_id) = {})
               => tk'[t].pc = "stopped" /\ sheet' = sheet]_vars

\* the request for the unknown id was answered 202 and its thread has stopped
C7_Witness ==
  /\ resp = Accepted(IdNone)
  /\ tk[1].pc = "stopped"
  /\ tk[2].pc = "idle"
  /\ CellsWith(sheet, IdNone) = {}

NewThreads == {t \in Tasks : tk[t].pc = "idle" /\ tk'[t].pc = "spawned"}

\* C8 as stated: the listing of POST /process-all holds one id for each row
\* whose Status is Ready, and the request starts that many threads and
\* returns that count.
C8_OneTaskPerReadyRow ==
  [][/\ (pa.pc = "idle" /\ pa'.pc = "listed")
          => Len(pa'.ready_ids) = Cardinality({r \in DataRows : IsReady(StatusOf(r))})
     /\ (pa.pc = "listed" /\ pa'.pc = "idle")
          => /\ Cardinality(NewThreads) = Len(pa.ready_ids)
             /\ resp'.code = 202 /\ resp'.count = Len(pa.ready_ids)]_vars

\* the rows listed by process_all, in the terms of the sheet
ReadyWithId(sh) ==
  {r \in DataRows : /\ sh[HeaderRow][StatusCol] = ColStatus
                    /\ sh[HeaderRow][IdCol] = ColId
                    /\ IsReady(sh[r][StatusCol])
                    /\ Truthy(sh[r][IdCol])}

\* C8 (amended): the listing holds, in row order, the id of each row whose
\* Status is Ready and whose id is non-empty; the request starts exactly one
\* thread per listed id, whatever the sheet has become since the listing, and
\* answers 202 with count = the number of listed ids.
C8_OneTaskPerReadyRowWithId ==
  [][/\ (pa.pc = "idle" /\ pa'.pc = "listed")
          => /\ Len(pa'.ready_ids) = Cardinality(ReadyWithId(sheet))
             /\ \A k \in 1..Len(pa'.ready_ids) :
                  \E r \in ReadyWithId(sheet) :
                    /\ sheet[r][IdCol] = pa'.ready_ids[k]
                    /\ Cardinality({q \in ReadyWithId(sheet) : q < r}) = k - 1
             /\ sheet' = sheet /\ tk' = tk
     /\ (pa.pc = "listed" /\ pa'.pc = "idle")
          => /\ Cardinality(NewThreads) = Len(pa.ready_ids)
             /\ \A t \in Tasks : t \notin NewThreads => tk'[t] = tk[t]
             /\ \A k \in 1..Len(pa.ready_ids) :
                  Cardinality({t \in NewThreads : tk'[t].record_id = pa.ready_ids[k]})
                    = Cardinality({j \in 1..Len(pa.ready_ids) : pa.ready_ids[j] = pa.ready_ids[k]})
             /\ resp'.route = "process-all" /\ resp'.code = 202
             /\ resp'.count = Len(pa.ready_ids)]_vars

\* one row was Ready at the listing and got the only thread; the other row,
\* released after the listing, is Ready and has none
C8_Witness ==
  /\ HeaderIntact
  /\ resp.route = "process-all" /\ resp.code = 202 /\ resp.count = 1
  /\ tk[1].pc = "spawned" /\ tk[1].req = "process-all"
  /\ tk[2].pc = "idle"
  /\ \A r \in DataRows : IsReady(StatusOf(r)) /\ Truthy(sheet[r][IdCol])

C10_FailedClaimAbortsRow ==
  [][(sw[1].pc = "claim" /\ sw'[1] # sw[1] /\ sw'[1].pc # "render")
       => /\ sheet' = sheet
          /\ sw'[1].error_count = sw[1].error_count + 1
          /\ sw'[1].success_count = sw[1].success_count
          /\ sw'[1].i = sw[1].i + 1
          /\ sw'[1].pc = IF sw[1].i = Len(sw[1].ready_rows) THEN "returned" ELSE "claim"]_vars

\* the sweep's only listed row failed its claim: counted as an error, still
\* Ready, result fields empty
C10_Witness ==
  /\ sw[1].pc = "returned" /\ Listed(1) = {2}
  /\ sw[1].error_count = 1 /\ sw[1].success_count = 0
  /\ IsReady(StatusOf(2)) /\ ~Truthy(DriveOf(2)) /\ ~Truthy(ErrorOf(2))

RowPcs ==
  {"claim", "render", "upload", "done_status", "done_field", "error_status", "error_field"}

\* C11: once the listing is read the sweep never raises; each time
\* process_row returns, with True or False, the sweep counts the row and goes
\* on to claim the next listed row until the list is exhausted; when it
\* returns, success_count + error_count is the number of rows listed.
C11_FailureNeverStopsSweep ==
  /\ [](sw[1].pc \in RowPcs =>
          /\ sw[1].i \in 1..Len(sw[1].ready_rows)
          /\ sw[1].success_count + sw[1].error_count = sw[1].i - 1)
  /\ []((sw[1].pc = "returned" /\ sw[1].ready_rows # <<>>) =>
          /\ sw[1].i = Len(sw[1].ready_rows) + 1
          /\ sw[1].success_count + sw[1].error_count = Len(sw[1].ready_rows))
  /\ [][sw[1].pc \in RowPcs =>
          /\ sw'[1].pc # "raised"
          /\ sw'[1].i = sw[1].i + 1 =>
               sw'[1].pc = IF sw[1].i < Len(sw[1].ready_rows) THEN "claim" ELSE "returned"]_vars

\* the first listed row failed (it was left at Error) and the sweep still
\* went on to the second one and finished it
C11_Witness ==
  /\ sw[1].pc = "returned" /\ Listed(1) = DataRows
  /\ sw[1].error_count = 1 /\ sw[1].success_count = 1
  /\ StatusOf(2) = Error
  /\ StatusOf(3) = Done /\ Truthy(DriveOf(3))

\* the response POST /process owes to a body carrying record_id
ProcessResponse(record_id) ==
  IF ~Truthy(record_id) THEN [NoResp EXCEPT !.route = "process", !.code = 400]
  ELSE IF SHEET_ID = "" THEN [NoResp EXCEPT !.route = "process", !.code = 500]
  ELSE Accepted(record_id)

\* what a POST /process step must look like besides its response
ProcessEffect(record_id) ==
  /\ sheet' = sheet
  /\ IF ProcessResponse(record_id).code = 202
     THEN /\ Cardinality(NewThreads) = 1
          /\ \A t \in Tasks :
               IF t \in NewThreads
               THEN tk'[t].record_id = record_id /\ tk'[t].row_number = None
               ELSE tk'[t] = tk[t]
     ELSE tk' = tk

\* C12: POST /process answers 400 without a record_id, 500 with a record_id
\* but no sheet id, and 202 echoing the record_id otherwise; only the 202
\* starts a thread, exactly one, and the handler itself never touches the sheet.
C12_ProcessStatusCodes ==
  \A rid \in ReqIds :
    /\ ~ENABLED (process(rid) /\ ~(resp' = ProcessResponse(rid) /\ ProcessEffect(rid)))
    /\ (ProcessResponse(rid).code # 202 \/ IdleTasks # {}) => ENABLED process(rid)

\* a request was accepted and started a thread; a later one without
\* record_id got 400 and started none
C12_Witness ==
  /\ resp.route = "process" /\ resp.code = 400
  /\ tk[1].pc = "spawned"
  /\ tk[2].pc = "idle"

\* C13: a row whose Status is Error keeps that Status in every step of the
\* system (Stage 1 only releases blank rows, so every step leaves it alone).
C13_ErrorIsFinal ==
  [][\A r \in DataRows : StatusOf(r) = Error => StatusAfter(r) = Error]_vars

\* the run of main died between its claim write and the end of process_row
DiedHolding(s) == sw[s].pc = "killed" /\ sw[s].died_in \in HoldPcs

\* C14: the row a dead run left at Processing stays at Processing in every
\* step of the sweeps and requests that start after the death.
C14_StuckRowStaysProcessing ==
  [][(DiedHolding(1) /\ StatusOf(CurRow(1)) = Processing) =>
       StatusAfter(CurRow(1)) = Processing]_vars

C16_ClaimExcludesLaterListing ==
  (DiedHolding(1) /\ StatusOf(CurRow(1)) = Processing) =>
    \A t \in Tasks :
      (tk[t].req = "process-all" /\ tk[t].pc \in {"render", "upload", "done_status", "done_field"})
        => tk[t].row_number # CurRow(1)

\* C17: a sweep works on one listed row at a time, in listing order: while it
\* is on the i-th record, process_row has returned for each earlier record
\* (each is counted) and no later record has been claimed (each is still
\* Ready); the claim write itself touches the i-th row only.
C17_OneRowAtATime ==
  /\ [](sw[1].pc \in RowPcs =>
          /\ sw[1].success_count + sw[1].error_count = sw[1].i - 1
          /\ \A k \in 1..Len(sw[1].ready_rows) :
               (k > sw[1].i \/ (k = sw[1].i /\ sw[1].pc = "claim")) =>
                 StatusOf(sw[1].ready_rows[k].row_number) = Ready)
  /\ [][(sw[1].pc = "claim" /\ sw'[1].pc = "render") =>
          /\ sw'[1].i = sw[1].i
          /\ StatusAfter(CurRow(1)) = Processing
          /\ \A r \in AllRows \ {CurRow(1)} : sheet'[r] = sheet[r]]_vars
  /\ [][sw[1].pc \in RowPcs => sw'[1].i \in {sw[1].i, sw[1].i + 1}]_vars

\* the sweep is between claim and finalization of its second record; the
\* first one is finished
C17_Witness ==
  /\ Listed(1) = DataRows
  /\ sw[1].i = 2 /\ sw[1].pc = "upload"
  /\ StatusOf(2) = Done /\ Truthy(DriveOf(2))
  /\ StatusOf(3) = Processing

\* C18: at the step where process_row returns, a row counted in
\* success_count is at Done with a non-empty drive_file_id in the sheet, and a
\* row counted in error_count is not at Done.
C18_CountsMatchStore ==
  [][sw[1].pc \in RowPcs =>
       /\ sw'[1].success_count = sw[1].success_count + 1 =>
            StatusAfter(CurRow(1)) = Done /\ Truthy(DriveAfter(CurRow(1)))
       /\ sw'[1].error_count = sw[1].error_count + 1 =>
            StatusAfter(CurRow(1)) # Done]_vars

\* C19: every step leaves the header row and the id and title cells of every
\* data row as they were; the sheet keeps its rows.
C19_OnlyResultCellsWritten ==
  [][/\ sheet'[HeaderRow] = sheet[HeaderRow]
     /\ DOMAIN sheet' = DOMAIN sheet
     /\ \A r \in DataRows : \A c \in Cols \ {StatusCol, DriveCol, ErrorCol} :
          sheet'[r][c] = sheet[r][c]]_vars

\* the rows that the threads of the one POST /process-all request have
\* located
RowOf(t) == tk[t].row_number

\* C20: two threads started by one POST /process-all never work on the same
\* row.
C20_TasksOnDistinctRows ==
  \A t1, t2 \in Tasks :
    (/\ t1 # t2
     /\ tk[t1].req = "process-all" /\ tk[t2].req = "process-all"
     /\ RowOf(t1) # None /\ RowOf(t2) # None)
      => RowOf(t1) # RowOf(t2)

\* what a thread of the web app can be doing
TaskPcs ==
  {"idle", "spawned", "claim", "render", "upload", "done_status", "done_field",
   "error_status", "error_field", "stopped"}

\* C21: when every call returns, the run of main ends (it returns, or raises
\* before its loop) and every started thread stops; no exception leaves
\* process_row once the loop is entered, and a thread is never anywhere but in
\* process_record or at its end, whether or not it has located its row.
C21_EverythingTerminates ==
  /\ <>(sw[1].pc \in {"returned", "raised"})
  /\ \A t \in Tasks : (tk[t].pc # "idle") ~> (tk[t].pc = "stopped")
  /\ [][sw[1].pc \in RowPcs => sw'[1].pc \in RowPcs \cup {"returned"}]_vars
  /\ [](\A t \in Tasks : tk[t].pc \in TaskPcs)
  /\ [][\A t \in Tasks : tk[t].pc = "stopped" => tk'[t].pc = "stopped"]_vars

\* the run of main has returned although its one listed row failed; the
\* thread started for id a has stopped without having written anything to
\* the row carrying that id (it failed before it had located the row)
C21_Witness ==
  /\ sw[1].pc = "returned" /\ Listed(1) = {3} /\ sw[1].error_count = 1
  /\ resp = Accepted(IdA) /\ tk[1].pc = "stopped"
  /\ sheet[2][IdCol] = IdA /\ sheet[3][IdCol] # IdA
  /\ StatusOf(2) = EmptyStr /\ ~Truthy(ErrorOf(2))
====
